---- MODULE Spec2Model ----
(***************************************************************************)
(* Model of imars3d/CT_from_TIFF_metadata.py: the autoreduce driver, the   *)
(* CT file-set assembly (_getCTfiles), the open-beam / dark-field lookup   *)
(* (_find_OB_DF_files), getIPTSdir and readTIFMetadata.                    *)
(*                                                                         *)
(* Units.  Angles are integers counting 1e-4 degree.  Modification times   *)
(* are integers counting seconds.  Arithmetic on them is exact (the        *)
(* rounding of IEEE doubles is not modelled).  The mean of a window of k   *)
(* angles is kept as the integer  sum * (FrameLCM / k),  i.e. in units of  *)
(* 1e-4/FrameLCM degree, so that means computed with different k compare.  *)
(*                                                                         *)
(* Paths.  A source file is named by a positive integer; the order of the  *)
(* integers is the order of the path strings.  A file of the directory     *)
(* CT_frame_averaged is named by the (scaled) angle its name is formatted  *)
(* from ('at_%s.tiff' % angle).  The argument of getIPTSdir and the tag    *)
(* values of readTIFMetadata are strings: sequences of characters.         *)
(***************************************************************************)
EXTENDS Integers, Sequences, FiniteSets

\* ---------------------------------------------------------------- bounds
MaxFiles == 4
MaxFrame == 3
MaxCal == 5
MaxSegments == 3
MaxTags == 2
MaxText == 3

\* ------------------------------------------------------ program constants
day == 86400
AtolUnits == 10
RtolInverse == 100000
FewFilesLimit == 5

\* ------------------------------------------------------------ input sets
Procs == {1, 2}
TrigGroup == 100
OtherGroup == 200
GroupIDs == {TrigGroup, OtherGroup}
Angles == {0, 16, 24}
BaseTime == 200000
StepTime == 10

VARIABLES
    listing,            \* os.listdir of the trigger file's directory, in listing order
    ob_dir,             \* mtimes of the entries of <IPTS>/raw/ob, in listing order
    df_dir,             \* mtimes of the entries of <IPTS>/raw/df, in listing order
    dirs,               \* the directories that exist, among AllDirs
    ct_dir_files,       \* the files of <workdir>/CT_frame_averaged
    pc,                 \* each process's position
    trigger,            \* each process's ct_file_path and what its metadata holds
    frame,              \* each process's locals: matched, ct_dir, frame_size
    earliest_ct_mtime,  \* self.earliest_ct_mtime (0 until _getCTfiles sets it)
    angle_file_list,    \* the local angle_file_list of _getCTfiles
    ct_out,             \* what _getCTfiles returned: output_files, output_angles
    cal_out,            \* what _find_OB_DF_files returned for ob and for df
    warnings,           \* the warnings emitted, in order
    error,              \* the exception that ended the invocation, "" if none
    calls,              \* the calls made on the reconstruction stage, in order
    path_arg,           \* the argument of a call of getIPTSdir, split at '/'
    ipts_dir,           \* <<>>, or what that call of getIPTSdir returned
    tif_file,           \* the file a call of readTIFMetadata is given
    metadata,           \* <<>>, or how that call of readTIFMetadata ended
    listed,             \* per process: the directories os.listdir was called on
    config,             \* the wizard's context.config: the set of <<field, value>> pairs
    panels,             \* the wizard panels created so far
    shown,              \* the wizard panel on display, "none" when there is none
    text,               \* the value of the text box of the panel on display
    events,             \* the alerts and exceptions of the wizard's callbacks, in order
    wiz_disk            \* what the wizard finds on disk

\* The variables of the calls of getIPTSdir and readTIFMetadata on their own.
purevars == <<path_arg, ipts_dir, tif_file, metadata>>

\* The variables of the reconstruction wizard.
wizvars == <<config, panels, shown, text, events, wiz_disk>>

vars == <<listing, ob_dir, df_dir, dirs, ct_dir_files, pc, trigger, frame, earliest_ct_mtime, angle_file_list, ct_out, cal_out, warnings, error, calls, path_arg, ipts_dir, tif_file, metadata, listed, config, panels, shown, text, events, wiz_disk>>

AllDirs == {"autoreduce_dir", "workdir", "ct_dir"}

\* ------------------------------------------------------------ arithmetic
Abs(x) == IF x < 0 THEN -x ELSE x

RECURSIVE GCD(_, _)
GCD(a, b) == IF b = 0 THEN a ELSE GCD(b, a % b)

RECURSIVE LCMUpTo(_)
LCMUpTo(n) == IF n <= 1 THEN 1 ELSE (LCMUpTo(n - 1) * n) \div GCD(LCMUpTo(n - 1), n)

FrameLCM == LCMUpTo(MaxFrame)

RECURSIVE SumAngles(_)
SumAngles(s) == IF s = <<>> THEN 0 ELSE Head(s)[1] + SumAngles(Tail(s))

RECURSIVE SeqMin(_)
SeqMin(s) == IF Len(s) = 1 THEN s[1] ELSE LET m == SeqMin(Tail(s)) IN IF s[1] <= m THEN s[1] ELSE m

Range(s) == {s[i] : i \in DOMAIN s}

\* All sequences over S of length at most n.
SeqUpTo(S, n) == UNION {[1..k -> S] : k \in 0..n}

\* -------------------------------------------------------- the directory
\* One entry of the directory: a TIFF file with its metadata and its mtime, a file
\* that is not a TIFF ("nottiff"), a subdirectory ("dir"), or a file whose metadata
\* cannot be read for another reason ("badtiff", "unreadable").
Entry(path, kind, g, a) == [path |-> path, kind |-> kind, GroupID |-> g, RotationActual |-> a, mtime |-> BaseTime + StepTime * path]

\* os.listdir returns the entries in arbitrary order.  The listings of n entries
\* taken here: the paths 1..n listed in ascending and in descending order of their
\* names, with every metadata.  (sorted() orders by (angle, path), so what it returns
\* does not depend on the listing order; the two orders give a pair of entries with
\* equal angles both ways round.)
PathOrders(n) == {[i \in 1..n |-> i], [i \in 1..n |-> n + 1 - i]}

\* What one entry can be: a TIFF file with its GroupID and its RotationActual (the
\* angle of an entry of another group is never read, line 159, so one value stands
\* for it), a file that is not a TIFF, a subdirectory.
TiffMeta == {<<"tiff", TrigGroup, a>> : a \in Angles} \cup {<<"tiff", OtherGroup, 0>>}
NotTiffMeta == {<<"nottiff", 0, 0>>}

Listings(n, metas) == {[i \in 1..n |-> Entry(perm[i], m[i][1], m[i][2], m[i][3])] : perm \in PathOrders(n), m \in [1..n -> metas]}

\* The trigger files of a listing: ct_file_path is an entry of its own directory.
\* idx is its place in the listing; FrameSize is what its metadata holds.
Triggers(l, groups, runs, sizes, frames) == {t \in [idx : DOMAIN l, RunNo : runs, GroupSize : sizes, FrameSize : frames] : l[t.idx].kind # "dir" /\ l[t.idx].GroupID \in groups}

\* -------------------------------------------------------------- sorting
\* Python's order on the tuples (angle, path) that sorted(zip(angles, files)) uses.
TupleLess(x, y) == x[1] < y[1] \/ (x[1] = y[1] /\ x[2] < y[2])

RECURSIVE InsertSorted(_, _)
InsertSorted(x, s) == IF s = <<>> THEN <<x>> ELSE IF TupleLess(x, Head(s)) THEN <<x>> \o s ELSE <<Head(s)>> \o InsertSorted(x, Tail(s))

\* sorted(zip(angles, files), key=angle): a stable sort on the angle alone.
RECURSIVE InsertByAngle(_, _)
InsertByAngle(x, s) == IF s = <<>> THEN <<x>> ELSE IF x[1] <= Head(s)[1] THEN <<x>> \o s ELSE <<Head(s)>> \o InsertByAngle(x, Tail(s))

RECURSIVE sorted_by_angle(_)
sorted_by_angle(s) == IF s = <<>> THEN <<>> ELSE InsertByAngle(Head(s), sorted_by_angle(Tail(s)))

RECURSIVE sorted(_)
sorted(s) == IF s = <<>> THEN <<>> ELSE InsertSorted(Head(s), sorted(Tail(s)))

\* ---------------------------------------------------------- _getCTfiles
\* readTIFMetadata(p) for an entry of the directory: the entry's metadata, or the
\* ValueError('not a valid TIFF file') tifffile raises.
IsTiff(e) == e.kind = "tiff"

\* The trigger file f1 of an invocation: an entry of the listing or, with idx 0, a
\* file of the trigger's group that was read at line 144 and is no longer there
\* when line 149 lists the directory.
Unlisted == [path |-> 0, kind |-> "tiff", GroupID |-> TrigGroup, RotationActual |-> 0, mtime |-> BaseTime]

TriggerFile(l, t) == IF t.idx \in DOMAIN l THEN l[t.idx] ELSE Unlisted

\* The except clause without the test of the message: every failure is skipped.
Skipped_any_failure(e) == e.kind # "tiff"

\* Lines 151 and 152-157: the entry is passed over, as a subdirectory or because
\* readTIFMetadata raised ValueError('not a valid TIFF file').
Skipped(e) == e.kind = "dir" \/ e.kind = "nottiff"

\* What readTIFMetadata raises for an entry that is neither read nor skipped: a
\* ValueError with another message (re-raised at line 156) or an error that the
\* except clause does not catch.
ReadError(e) == IF e.kind = "badtiff" THEN "ValueError: other" ELSE "IOError"

\* Lines 149-162: the exception that ends the loop over the entries, "" when none
\* does: the read error of an entry, or the OSError of os.path.getmtime(f1) at
\* line 162 when an entry matches and f1 is no longer there.
RECURSIVE ScanError(_, _, _)
ScanError(l, g, f1_there) ==
    IF l = <<>> THEN ""
    ELSE IF Skipped(Head(l)) THEN ScanError(Tail(l), g, f1_there)
    ELSE IF ~IsTiff(Head(l)) THEN ReadError(Head(l))
    ELSE IF Head(l).GroupID # g THEN ScanError(Tail(l), g, f1_there)
    ELSE IF ~f1_there THEN "OSError"
    ELSE ScanError(Tail(l), g, f1_there)

\* The filter without the test of line 159: files of every group are taken.
RECURSIVE Matched_any_group(_, _)
Matched_any_group(l, g) == IF l = <<>> THEN <<>> ELSE IF Head(l).kind # "dir" /\ IsTiff(Head(l)) THEN <<<<Head(l).RotationActual, Head(l).path>>>> \o Matched_any_group(Tail(l), g) ELSE Matched_any_group(Tail(l), g)

\* Lines 148-163: the (angle, path) pairs of the entries of the trigger's group, in
\* listing order; subdirectories and files that are not TIFF are skipped.
RECURSIVE Matched(_, _)
Matched(l, g) == IF l = <<>> THEN <<>> ELSE IF Head(l).kind # "dir" /\ IsTiff(Head(l)) /\ Head(l).GroupID = g THEN <<<<Head(l).RotationActual, Head(l).path>>>> \o Matched(Tail(l), g) ELSE Matched(Tail(l), g)

\* Line 162: mtimes.append(os.path.getmtime(f1)), once per matched entry; f1 is the
\* trigger file.
Mtimes(l, g, f1) == [i \in 1..Len(Matched(l, g)) |-> f1.mtime]

\* Line 190: np.allclose(angles1, ave_angle, atol=1e-3), with numpy's rtol=1e-5:
\* |a - ave| <= atol + rtol * |ave| for every a, ave = sum / k.  Times k, and with
\* the whole number on the left, that is |k * a - sum| <= k * atol + |sum| \div (1 / rtol).
AllClose(window, sum, k) == \A i \in 1..Len(window) : Abs(k * window[i][1] - sum) <= k * AtolUnits + Abs(sum) \div RtolInverse

\* ct_filename_template % angle: the name of the file, one name per value.
FileName(scaled) == scaled

\* Writing newpath as the only file of the directory: what was there is lost.
WriteFile_only(fs, name, content) == {[name |-> name, content |-> content]}

\* Lines 198-201 and 176: writing newpath replaces what the name held.
WriteFile(fs, name, content) == {f \in fs : f.name # name} \cup {[name |-> name, content |-> content]}

Exists(fs, name) == \E f \in fs : f.name = name

\* Line 182: the entry at index (counted from 0) is not the last frame of a window.
SkipFrame(index, frame_size) == index % frame_size # frame_size - 1

\* The slice taken one entry short: angle_file_list[index-(frame_size-1)+1: index+1].
Sublist_short(l, index, frame_size) == SubSeq(l, index - (frame_size - 1) + 2, index + 1)

\* Line 184: angle_file_list[index-(frame_size-1): index+1].
Sublist(l, index, frame_size) == SubSeq(l, index - (frame_size - 1) + 1, index + 1)

\* What the loop hands back: how it ended, the files of ct_dir, the output lists.
LoopResult(status, fs, outf, outa) == [status |-> status, fs |-> fs, files |-> outf, angles |-> outa]

\* Lines 173-205: the loop over angle_file_list from the entry at index on, with the
\* files of ct_dir and the two output lists so far.  ct_dir is the local variable,
\* bound at line 168 only when frame_size # 1; line 175 reads it when frame_size = 1.
RECURSIVE Loop(_, _, _, _, _, _, _)
Loop(l, frame_size, ct_dir, fs, index, outf, outa) ==
    IF index >= Len(l) THEN LoopResult("returned", fs, outf, outa)
    ELSE IF frame_size = 1 THEN
        IF ct_dir = "unbound" THEN LoopResult("UnboundLocalError", fs, outf, outa)
        ELSE LET angle == l[index + 1][1] * FrameLCM
                 newpath == FileName(angle)
             IN  IF Exists(fs, newpath) THEN LoopResult("OSError", fs, outf, outa)
                 ELSE Loop(l, frame_size, ct_dir, WriteFile(fs, newpath, [link |-> TRUE, src |-> {l[index + 1][2]}]), index + 1, Append(outf, newpath), Append(outa, angle))
    ELSE IF SkipFrame(index, frame_size) THEN Loop(l, frame_size, ct_dir, fs, index + 1, outf, outa)
    ELSE LET sublist == Sublist(l, index, frame_size)
             sum == SumAngles(sublist)
             ave_angle == sum * (FrameLCM \div frame_size)
             newpath == FileName(ave_angle)
         IN  IF ~AllClose(sublist, sum, frame_size) THEN LoopResult("AssertionError", fs, outf, outa)
             ELSE Loop(l, frame_size, ct_dir, WriteFile(fs, newpath, [link |-> FALSE, src |-> {sublist[j][2] : j \in 1..Len(sublist)}]), index + 1, Append(outf, newpath), Append(outa, ave_angle))

\* No wizard is running.
NoWizard == config = {} /\ panels = {} /\ shown = "none" /\ text = <<>> /\ events = <<>> /\ wiz_disk = [ipts |-> {}, ct_scans |-> FALSE]

\* No call of getIPTSdir or readTIFMetadata on its own is under way.
NoPureCall == path_arg = <<>> /\ ipts_dir = <<>> /\ tif_file = [kind |-> "tiff", tags |-> <<>>] /\ metadata = <<>>

NoFrame == [matched |-> <<>>, ct_dir |-> "unbound", frame_size |-> 0, skip_df |-> FALSE]
NoOut == [files |-> <<>>, angles |-> <<>>]

Raise(p, e) == pc' = [pc EXCEPT ![p] = "raised"] /\ error' = [error EXCEPT ![p] = e]

\* Lines 143-169, up to the test of os.path.exists(ct_dir).
GetCTfiles_scan(p) ==
    /\ pc[p] = "ct_scan"
    /\ UNCHANGED purevars
    /\ UNCHANGED wizvars
    /\ listed' = [listed EXCEPT ![p] = @ \cup {"ct"}]
    /\ LET f1 == TriggerFile(listing, trigger[p])
           groupID == f1.GroupID
           m == Matched(listing, groupID)
           frame_size == trigger[p].FrameSize
           e == ScanError(listing, groupID, trigger[p].idx \in DOMAIN listing)
       IN  IF e # ""
           THEN /\ Raise(p, e)
                /\ UNCHANGED <<frame, earliest_ct_mtime>>
           ELSE IF m = <<>>
           THEN /\ Raise(p, "ValueError")
                /\ UNCHANGED <<frame, earliest_ct_mtime>>
           ELSE /\ earliest_ct_mtime' = [earliest_ct_mtime EXCEPT ![p] = SeqMin(Mtimes(listing, groupID, f1))]
                /\ frame' = [frame EXCEPT ![p] = [matched |-> m, ct_dir |-> IF frame_size # 1 THEN "ct_dir" ELSE "unbound", frame_size |-> frame_size, skip_df |-> @.skip_df]]
                /\ pc' = [pc EXCEPT ![p] = IF frame_size # 1 /\ "ct_dir" \notin dirs THEN "ct_mkdir" ELSE "ct_loop"]
                /\ UNCHANGED error
    /\ UNCHANGED <<listing, ob_dir, df_dir, dirs, ct_dir_files, trigger, angle_file_list, ct_out, cal_out, warnings, calls>>

\* Line 169: os.makedirs(ct_dir), which fails when the directory exists by now.
GetCTfiles_makedirs(p) ==
    /\ pc[p] = "ct_mkdir"
    /\ UNCHANGED purevars
    /\ UNCHANGED wizvars
    /\ UNCHANGED listed
    /\ IF "ct_dir" \in dirs
       THEN Raise(p, "OSError") /\ UNCHANGED dirs
       ELSE dirs' = dirs \cup {"ct_dir"} /\ pc' = [pc EXCEPT ![p] = "ct_loop"] /\ UNCHANGED error
    /\ UNCHANGED <<listing, ob_dir, df_dir, ct_dir_files, trigger, frame, earliest_ct_mtime, angle_file_list, ct_out, cal_out, warnings, calls>>

\* Lines 171-206: the sort and the loop that links or averages.
GetCTfiles_loop(p) ==
    /\ pc[p] = "ct_loop"
    /\ UNCHANGED purevars
    /\ UNCHANGED wizvars
    /\ UNCHANGED listed
    /\ LET l == sorted(frame[p].matched)
           r == Loop(l, frame[p].frame_size, frame[p].ct_dir, ct_dir_files, 0, <<>>, <<>>)
       IN  /\ angle_file_list' = [angle_file_list EXCEPT ![p] = l]
           /\ ct_dir_files' = r.fs
           /\ IF r.status = "returned"
              THEN /\ ct_out' = [ct_out EXCEPT ![p] = [files |-> r.files, angles |-> r.angles]]
                   /\ pc' = [pc EXCEPT ![p] = "sniff_ob"]
                   /\ UNCHANGED error
              ELSE /\ Raise(p, r.status)
                   /\ UNCHANGED ct_out
    /\ UNCHANGED <<listing, ob_dir, df_dir, dirs, trigger, frame, earliest_ct_mtime, cal_out, warnings, calls>>

\* ---------------------------------------------------- _find_OB_DF_files
\* The mtimes a calibration entry can have: around the edge of the window of the
\* earliest mtime a CT file can have, BaseTime + StepTime.
CalTimes == {BaseTime + StepTime - day - StepTime, BaseTime + StepTime - day, BaseTime + StepTime - day + StepTime}

\* The test with >= for >.
NotTooEarly_inclusive(mt, earliest) == mt >= earliest - day

\* Line 131: the OB file's mtime is not too early.
NotTooEarly(mt, earliest) == mt > earliest - day

\* Lines 127-133: the entries kept, by their place in the listing, in listing order.
RECURSIVE Kept(_, _, _)
Kept(entries, i, earliest) == IF i > Len(entries) THEN <<>> ELSE IF NotTooEarly(entries[i], earliest) THEN <<i>> \o Kept(entries, i + 1, earliest) ELSE Kept(entries, i + 1, earliest)

\* The test with <= for <.
TooFew_inclusive(out) == Len(out) <= FewFilesLimit

\* Line 136: too few files, which is warned about.
TooFew(out) == Len(out) < FewFilesLimit

\* The lookup without the test of line 134: an empty out is returned.
_find_OB_DF_files_noraise(type, entries, earliest) == [status |-> "returned", out |-> Kept(entries, 1, earliest), warn |-> IF TooFew(Kept(entries, 1, earliest)) THEN <<type>> ELSE <<>>]

\* Lines 118-139: what the lookup does with the entries of the directory: raises,
\* or returns out, after a warning when out is short.
_find_OB_DF_files(type, entries, earliest) ==
    LET out == Kept(entries, 1, earliest)
    IN  IF Len(out) = 0 THEN [status |-> "RuntimeError: no files", out |-> <<>>, warn |-> <<>>]
        ELSE [status |-> "returned", out |-> out, warn |-> IF TooFew(out) THEN <<type>> ELSE <<>>]

\* Lines 106-108 of sniff: the open-beam lookup.
sniff_ob(p) ==
    /\ pc[p] = "sniff_ob"
    /\ UNCHANGED purevars
    /\ UNCHANGED wizvars
    /\ listed' = [listed EXCEPT ![p] = @ \cup {"ob"}]
    /\ LET r == _find_OB_DF_files("Open Beam", ob_dir, earliest_ct_mtime[p])
       IN  IF r.status = "returned"
           THEN /\ cal_out' = [cal_out EXCEPT ![p].ob = r.out]
                /\ warnings' = [warnings EXCEPT ![p] = @ \o r.warn]
                /\ pc' = [pc EXCEPT ![p] = "sniff_df"]
                /\ UNCHANGED error
           ELSE /\ Raise(p, "RuntimeError: no Open Beam")
                /\ UNCHANGED <<cal_out, warnings>>
    /\ UNCHANGED <<listing, ob_dir, df_dir, dirs, ct_dir_files, trigger, frame, earliest_ct_mtime, angle_file_list, ct_out, calls>>

\* The lookup made whatever skip_df is.
LookupDF_always(skip_df) == TRUE

\* Line 110: if not self.skip_df.
LookupDF(skip_df) == ~skip_df

\* Line 115: dfs = None.  A set that a lookup returns holds places of the directory,
\* which count from 1, and is never empty.
None == <<0>>

\* Lines 109-115 of sniff: the dark-field lookup, unless skip_df.
sniff_df(p) ==
    /\ pc[p] = "sniff_df"
    /\ UNCHANGED purevars
    /\ UNCHANGED wizvars
    /\ LET r == _find_OB_DF_files("Dark field", df_dir, earliest_ct_mtime[p])
       IN  IF ~LookupDF(frame[p].skip_df)
           THEN /\ cal_out' = [cal_out EXCEPT ![p].df = None]
                /\ pc' = [pc EXCEPT ![p] = "preprocess"]
                /\ UNCHANGED <<warnings, error, listed>>
           ELSE IF r.status = "returned"
           THEN /\ cal_out' = [cal_out EXCEPT ![p].df = r.out]
                /\ warnings' = [warnings EXCEPT ![p] = @ \o r.warn]
                /\ pc' = [pc EXCEPT ![p] = "preprocess"]
                /\ listed' = [listed EXCEPT ![p] = @ \cup {"df"}]
                /\ UNCHANGED error
           ELSE /\ Raise(p, "RuntimeError: no Dark field")
                /\ listed' = [listed EXCEPT ![p] = @ \cup {"df"}]
                /\ UNCHANGED <<cal_out, warnings>>
    /\ UNCHANGED <<listing, ob_dir, df_dir, dirs, ct_dir_files, trigger, frame, earliest_ct_mtime, angle_file_list, ct_out, calls>>

\* ------------------------------------------------------------ autoreduce
\* The test of line 36 off by one, and with <= for <.
Incomplete_off_by_one(RunNo, GroupID, GroupSize) == RunNo < GroupID + GroupSize - 2

Incomplete_inclusive(RunNo, GroupID, GroupSize) == RunNo <= GroupID + GroupSize - 1

\* Line 36: the group is not complete yet.
Incomplete(RunNo, GroupID, GroupSize) == RunNo < GroupID + GroupSize - 1

\* A second test that differs from the first: RunNo past the last of the group.
Corrupted_past_last(RunNo, GroupID, GroupSize) == RunNo > GroupID + GroupSize - 1

\* Line 38: the second test of the same values.
Corrupted(RunNo, GroupID, GroupSize) == RunNo < GroupID + GroupSize - 1

\* Lines 32-39: read the trigger's metadata and test whether its group is complete.
autoreduce(p) ==
    /\ pc[p] = "start"
    /\ UNCHANGED purevars
    /\ UNCHANGED wizvars
    /\ UNCHANGED listed
    /\ LET meta == listing[trigger[p].idx]
           RunNo == trigger[p].RunNo
           GroupID == meta.GroupID
           GroupSize == trigger[p].GroupSize
       IN  IF ~IsTiff(meta) THEN Raise(p, "ValueError")
           ELSE IF Incomplete(RunNo, GroupID, GroupSize) THEN pc' = [pc EXCEPT ![p] = "returned"] /\ UNCHANGED error
           ELSE IF Corrupted(RunNo, GroupID, GroupSize) THEN Raise(p, "RuntimeError: Corrupted file?")
           ELSE pc' = [pc EXCEPT ![p] = "autoreduce_dir"] /\ UNCHANGED error
    /\ UNCHANGED <<listing, ob_dir, df_dir, dirs, ct_dir_files, trigger, frame, earliest_ct_mtime, angle_file_list, ct_out, cal_out, warnings, calls>>

\* Lines 40-42: getIPTSdir and the test of os.path.exists(autoreduce_dir).
autoreduce_exists(p) ==
    /\ pc[p] = "autoreduce_dir"
    /\ UNCHANGED purevars
    /\ UNCHANGED wizvars
    /\ UNCHANGED listed
    /\ pc' = [pc EXCEPT ![p] = IF "autoreduce_dir" \notin dirs THEN "autoreduce_makedirs" ELSE "CT"]
    /\ UNCHANGED <<listing, ob_dir, df_dir, dirs, ct_dir_files, trigger, frame, earliest_ct_mtime, angle_file_list, ct_out, cal_out, warnings, error, calls>>

\* Line 43: os.makedirs(autoreduce_dir), which fails when the directory exists by now.
autoreduce_makedirs(p) ==
    /\ pc[p] = "autoreduce_makedirs"
    /\ UNCHANGED purevars
    /\ UNCHANGED wizvars
    /\ UNCHANGED listed
    /\ IF "autoreduce_dir" \in dirs
       THEN Raise(p, "OSError") /\ UNCHANGED dirs
       ELSE dirs' = dirs \cup {"autoreduce_dir"} /\ pc' = [pc EXCEPT ![p] = "CT"] /\ UNCHANGED error
    /\ UNCHANGED <<listing, ob_dir, df_dir, ct_dir_files, trigger, frame, earliest_ct_mtime, angle_file_list, ct_out, cal_out, warnings, calls>>

\* Lines 46-54 and 82-86: CT(ct_file_path, skip_df=False, ...) up to the test of
\* os.path.exists(workdir).
CT_init(p) ==
    /\ pc[p] = "CT"
    /\ UNCHANGED purevars
    /\ UNCHANGED wizvars
    /\ UNCHANGED listed
    /\ frame' = [frame EXCEPT ![p].skip_df = FALSE]
    /\ pc' = [pc EXCEPT ![p] = IF "workdir" \notin dirs THEN "CT_makedirs" ELSE "ct_scan"]
    /\ UNCHANGED <<listing, ob_dir, df_dir, dirs, ct_dir_files, trigger, earliest_ct_mtime, angle_file_list, ct_out, cal_out, warnings, error, calls>>

\* Line 87: os.makedirs(workdir), which fails when the directory exists by now.
CT_makedirs(p) ==
    /\ pc[p] = "CT_makedirs"
    /\ UNCHANGED purevars
    /\ UNCHANGED wizvars
    /\ UNCHANGED listed
    /\ IF "workdir" \in dirs
       THEN Raise(p, "OSError") /\ UNCHANGED dirs
       ELSE dirs' = dirs \cup {"workdir"} /\ pc' = [pc EXCEPT ![p] = "ct_scan"] /\ UNCHANGED error
    /\ UNCHANGED <<listing, ob_dir, df_dir, ct_dir_files, trigger, frame, earliest_ct_mtime, angle_file_list, ct_out, cal_out, warnings, calls>>

\* Line 55: ct.preprocess(), of the reconstruction stage: it returns or it raises.
preprocess(p) ==
    /\ pc[p] = "preprocess"
    /\ UNCHANGED purevars
    /\ UNCHANGED wizvars
    /\ UNCHANGED listed
    /\ calls' = [calls EXCEPT ![p] = Append(@, "preprocess")]
    /\ \E ok \in BOOLEAN : IF ok THEN pc' = [pc EXCEPT ![p] = "recon"] /\ UNCHANGED error ELSE Raise(p, "preprocess failed")
    /\ UNCHANGED <<listing, ob_dir, df_dir, dirs, ct_dir_files, trigger, frame, earliest_ct_mtime, angle_file_list, ct_out, cal_out, warnings>>

\* Lines 56-57: ct.recon(), of the reconstruction stage, and the return.
recon(p) ==
    /\ pc[p] = "recon"
    /\ UNCHANGED purevars
    /\ UNCHANGED wizvars
    /\ UNCHANGED listed
    /\ calls' = [calls EXCEPT ![p] = Append(@, "recon")]
    /\ \E ok \in BOOLEAN : IF ok THEN pc' = [pc EXCEPT ![p] = "done"] /\ UNCHANGED error ELSE Raise(p, "recon failed")
    /\ UNCHANGED <<listing, ob_dir, df_dir, dirs, ct_dir_files, trigger, frame, earliest_ct_mtime, angle_file_list, ct_out, cal_out, warnings>>

\* ------------------------------------------------- assembly on its own
\* CT._getCTfiles called on a CT object whose workdir exists, for every directory of
\* at most MaxFiles TIFF files, every trigger among them and every FrameSize.
InitProc(first) == [p \in Procs |-> IF p = 1 THEN first ELSE "off"]

InitCT ==
    /\ listing \in UNION {Listings(n, TiffMeta) : n \in 1..MaxFiles}
    /\ ob_dir = <<>>
    /\ df_dir = <<>>
    /\ dirs = {"workdir"}
    /\ ct_dir_files = {}
    /\ pc = InitProc("ct_scan")
    /\ \E t \in Triggers(listing, {TrigGroup}, {TrigGroup}, {1}, 1..MaxFrame) : trigger = [p \in Procs |-> t]
    /\ frame = [p \in Procs |-> NoFrame]
    /\ earliest_ct_mtime = [p \in Procs |-> 0]
    /\ angle_file_list = [p \in Procs |-> <<>>]
    /\ ct_out = [p \in Procs |-> NoOut]
    /\ cal_out = [p \in Procs |-> [ob |-> <<>>, df |-> <<>>]]
    /\ warnings = [p \in Procs |-> <<>>]
    /\ error = [p \in Procs |-> ""]
    /\ calls = [p \in Procs |-> <<>>]
    /\ listed = [p \in Procs |-> {}]
    /\ NoWizard
    /\ NoPureCall

NextCT == \E p \in Procs : GetCTfiles_scan(p) \/ GetCTfiles_makedirs(p) \/ GetCTfiles_loop(p)

SpecCT == InitCT /\ [][NextCT]_vars

\* ------------------------------------------------ the tolerance on its own
\* Nothing has been computed yet: the state of the variables an invocation writes.
NothingYet ==
    /\ ct_dir_files = {}
    /\ frame = [p \in Procs |-> NoFrame]
    /\ earliest_ct_mtime = [p \in Procs |-> 0]
    /\ angle_file_list = [p \in Procs |-> <<>>]
    /\ ct_out = [p \in Procs |-> NoOut]
    /\ cal_out = [p \in Procs |-> [ob |-> <<>>, df |-> <<>>]]
    /\ warnings = [p \in Procs |-> <<>>]
    /\ error = [p \in Procs |-> ""]
    /\ calls = [p \in Procs |-> <<>>]
    /\ listed = [p \in Procs |-> {}]
    /\ NoWizard
    /\ NoPureCall

\* Angles near 0 and near 300 degrees, in units of 1e-4 degree: at 300 degrees
\* rtol * |ave| is 3e-3 degree.
WideAngles == Angles \cup {3000000, 3000024}

\* CT._getCTfiles with FrameSize > 1 on a directory of at most MaxFiles files of the
\* trigger's group, the first of them the trigger, with angles of both magnitudes.
InitAngle ==
    /\ \E n \in 1..MaxFiles : listing \in {[i \in 1..n |-> Entry(i, "tiff", TrigGroup, a[i])] : a \in [1..n -> WideAngles]}
    /\ ob_dir = <<>>
    /\ df_dir = <<>>
    /\ dirs = {"workdir"}
    /\ pc = InitProc("ct_scan")
    /\ \E k \in 2..MaxFrame : trigger = [p \in Procs |-> [idx |-> 1, RunNo |-> TrigGroup, GroupSize |-> 1, FrameSize |-> k]]
    /\ NothingYet

SpecAngle == InitAngle /\ [][NextCT]_vars

\* ------------------------------------------- the scan of the directory
\* What one entry of the directory can be, the entries that are skipped and those
\* that cannot be read among them.
DirMetas == {<<"tiff", TrigGroup, 0>>, <<"tiff", OtherGroup, 0>>, <<"nottiff", 0, 0>>, <<"dir", 0, 0>>, <<"badtiff", 0, 0>>, <<"unreadable", 0, 0>>}

\* The trigger is a TIFF file of the listing, or is no longer in the directory.
DirTriggers(l) == {t \in [idx : 0..Len(l), RunNo : {TrigGroup}, GroupSize : {1}, FrameSize : 1..2] : t.idx = 0 \/ (l[t.idx].kind = "tiff" /\ l[t.idx].GroupID = TrigGroup)}

\* CT._getCTfiles on a directory of at most MaxFiles entries of every kind, with
\* FrameSize 1 and 2.
InitDir ==
    /\ listing \in UNION {Listings(n, DirMetas) : n \in 1..MaxFiles}
    /\ ob_dir = <<>>
    /\ df_dir = <<>>
    /\ dirs = {"workdir"}
    /\ pc = InitProc("ct_scan")
    /\ \E t \in DirTriggers(listing) : trigger = [p \in Procs |-> t]
    /\ NothingYet

SpecDir == InitDir /\ [][NextCT]_vars

\* ------------------------------------------------- the lookup on its own
\* sniff after _getCTfiles has returned for a directory of one file of the group
\* (FrameSize 2, so nothing to average), for every open-beam and dark-field
\* directory of at most MaxCal entries on one side and at most one on the other.
CalDirs == (SeqUpTo(CalTimes, MaxCal) \X SeqUpTo(CalTimes, 1)) \cup (SeqUpTo(CalTimes, 1) \X SeqUpTo(CalTimes, MaxCal))

InitCal ==
    /\ \E path \in 1..2 : listing = <<Entry(path, "tiff", TrigGroup, 0)>>
    /\ \E d \in CalDirs : ob_dir = d[1] /\ df_dir = d[2]
    /\ dirs = AllDirs
    /\ ct_dir_files = {}
    /\ pc = InitProc("sniff_ob")
    /\ trigger = [p \in Procs |-> [idx |-> 1, RunNo |-> TrigGroup, GroupSize |-> 1, FrameSize |-> 2]]
    /\ frame = [p \in Procs |-> IF p = 1 THEN [matched |-> <<<<0, listing[1].path>>>>, ct_dir |-> "ct_dir", frame_size |-> 2, skip_df |-> FALSE] ELSE NoFrame]
    /\ earliest_ct_mtime = [p \in Procs |-> IF p = 1 THEN listing[1].mtime ELSE 0]
    /\ angle_file_list = [p \in Procs |-> IF p = 1 THEN <<<<0, listing[1].path>>>> ELSE <<>>]
    /\ ct_out = [p \in Procs |-> NoOut]
    /\ cal_out = [p \in Procs |-> [ob |-> <<>>, df |-> <<>>]]
    /\ warnings = [p \in Procs |-> <<>>]
    /\ error = [p \in Procs |-> ""]
    /\ calls = [p \in Procs |-> <<>>]
    /\ listed = [p \in Procs |-> {}]
    /\ NoWizard
    /\ NoPureCall

NextCal == \E p \in Procs : sniff_ob(p) \/ sniff_df(p)

SpecCal == InitCal /\ [][NextCal]_vars

\* ------------------------------------------------------- the whole driver
\* autoreduce on a trigger file of a directory of one or two entries, its RunNo
\* below, at and above GroupID + GroupSize - 1, with calibration directories of at
\* most one entry, on a fresh disk or on one an earlier invocation left.
RunNos == {TrigGroup, TrigGroup + 1, TrigGroup + 2}

Init ==
    /\ listing \in Listings(1, TiffMeta \cup NotTiffMeta) \cup Listings(2, TiffMeta \cup NotTiffMeta)
    /\ ob_dir \in SeqUpTo(CalTimes, 1)
    /\ df_dir \in SeqUpTo(CalTimes, 1)
    /\ dirs \in {{}, {"autoreduce_dir"}, AllDirs}
    /\ ct_dir_files = {}
    /\ pc = InitProc("start")
    /\ \E t \in Triggers(listing, {0, TrigGroup}, RunNos, {2}, 1..MaxFrame) : trigger = [p \in Procs |-> t]
    /\ frame = [p \in Procs |-> NoFrame]
    /\ earliest_ct_mtime = [p \in Procs |-> 0]
    /\ angle_file_list = [p \in Procs |-> <<>>]
    /\ ct_out = [p \in Procs |-> NoOut]
    /\ cal_out = [p \in Procs |-> [ob |-> <<>>, df |-> <<>>]]
    /\ warnings = [p \in Procs |-> <<>>]
    /\ error = [p \in Procs |-> ""]
    /\ calls = [p \in Procs |-> <<>>]
    /\ listed = [p \in Procs |-> {}]
    /\ NoWizard
    /\ NoPureCall

Next == \E p \in Procs : autoreduce(p) \/ autoreduce_exists(p) \/ autoreduce_makedirs(p) \/ CT_init(p) \/ CT_makedirs(p) \/ GetCTfiles_scan(p) \/ GetCTfiles_makedirs(p) \/ GetCTfiles_loop(p) \/ sniff_ob(p) \/ sniff_df(p) \/ preprocess(p) \/ recon(p)

Spec == Init /\ [][Next]_vars

\* ------------------------------------------------------ the re-trigger
\* Line 31, called again: autoreduce is invoked once more on the same trigger file
\* after the other invocations have ended, on the disk they left.
retrigger(p) ==
    /\ pc[p] = "waiting"
    /\ UNCHANGED purevars
    /\ UNCHANGED wizvars
    /\ UNCHANGED listed
    /\ \A q \in Procs \ {p} : pc[q] \in {"returned", "raised", "done"}
    /\ pc' = [pc EXCEPT ![p] = "start"]
    /\ UNCHANGED <<listing, ob_dir, df_dir, dirs, ct_dir_files, trigger, frame, earliest_ct_mtime, angle_file_list, ct_out, cal_out, warnings, error, calls>>

\* autoreduce on a fresh disk for the trigger file of a complete group, in a
\* directory of one or two TIFF files with calibration directories of at most one
\* entry, and a second invocation on the same file once the first has ended.
InitRetrigger ==
    /\ listing \in Listings(1, TiffMeta) \cup Listings(2, TiffMeta)
    /\ ob_dir \in SeqUpTo(CalTimes, 1)
    /\ df_dir \in SeqUpTo(CalTimes, 1)
    /\ dirs = {}
    /\ pc = [p \in Procs |-> IF p = 1 THEN "start" ELSE "waiting"]
    /\ \E t \in Triggers(listing, {TrigGroup}, {TrigGroup + 1}, {2}, 1..MaxFrame) : trigger = [p \in Procs |-> t]
    /\ NothingYet

NextRetrigger == Next \/ \E p \in Procs : retrigger(p)

SpecRetrigger == InitRetrigger /\ [][NextRetrigger]_vars

\* ------------------------------------------------ two invocations at once
\* autoreduce invoked by two processes at once on the trigger file of a complete
\* group, on a fresh disk: a directory of one or two TIFF files of the group with
\* equal angles, one calibration file of each kind in the time window.
InitConcurrent ==
    /\ listing \in {[i \in 1..n |-> Entry(i, "tiff", TrigGroup, 0)] : n \in 1..2}
    /\ ob_dir = <<BaseTime>>
    /\ df_dir = <<BaseTime>>
    /\ dirs = {}
    /\ pc = [p \in Procs |-> "start"]
    /\ \E k \in 1..MaxFrame : trigger = [p \in Procs |-> [idx |-> 1, RunNo |-> TrigGroup + 1, GroupSize |-> 2, FrameSize |-> k]]
    /\ NothingYet

SpecConcurrent == InitConcurrent /\ [][Next]_vars

\* ------------------------------------------------------------ getIPTSdir
\* A string is a sequence of characters.  The reserved prefix of line 214.
IPTS == <<"I", "P", "T", "S">>

\* f1.split('/'): the pieces of s between the occurrences of sep.
RECURSIVE Split(_, _)
Split(s, sep) == IF \A i \in DOMAIN s : s[i] # sep THEN <<s>> ELSE LET i == CHOOSE j \in DOMAIN s : s[j] = sep /\ \A h \in 1..(j - 1) : s[h] # sep IN <<SubSeq(s, 1, i - 1)>> \o Split(SubSeq(s, i + 1, Len(s)), sep)

\* The test whether prefix occurs anywhere in the token.
Contains(token, prefix) == \E i \in 1..Len(token) : i + Len(prefix) - 1 <= Len(token) /\ SubSeq(token, i, i + Len(prefix) - 1) = prefix

\* Line 214: token.startswith(prefix).
StartsWith(token, prefix) == Len(token) >= Len(prefix) /\ SubSeq(token, 1, Len(prefix)) = prefix

\* Lines 212-215: the loop over the tokens left, with p so far.
RECURSIVE getIPTSdir_loop(_, _)
getIPTSdir_loop(tokens, p) == IF tokens = <<>> THEN p ELSE IF StartsWith(Head(tokens), IPTS) THEN p \o Head(tokens) \o <<"/">> ELSE getIPTSdir_loop(Tail(tokens), p \o Head(tokens) \o <<"/">>)

\* Lines 209-216: getIPTSdir(f1); it has no raise, every call returns p.
getIPTSdir(f1) == [status |-> "returned", p |-> getIPTSdir_loop(Split(f1, "/"), <<>>)]

\* A call of getIPTSdir on path_arg.
call_getIPTSdir ==
    /\ ipts_dir = <<>>
    /\ ipts_dir' = <<getIPTSdir(path_arg)>>
    /\ UNCHANGED wizvars
    /\ UNCHANGED listed
    /\ UNCHANGED <<listing, ob_dir, df_dir, dirs, ct_dir_files, pc, trigger, frame, earliest_ct_mtime, angle_file_list, ct_out, cal_out, warnings, error, calls, path_arg, tif_file, metadata>>

\* The segments a path is made of: the empty one (of a leading or a doubled '/'),
\* names that begin with IPTS and names that do not.
Segments == {<<>>, <<"d">>, <<"I", "P", "T">>, IPTS, IPTS \o <<"-", "1">>, <<"x">> \o IPTS}

\* '/'.join(segments).
RECURSIVE Join(_)
Join(segments) == IF Len(segments) = 1 THEN segments[1] ELSE segments[1] \o <<"/">> \o Join(Tail(segments))

\* getIPTSdir called on every path of at most MaxSegments segments.
InitPath ==
    /\ \E n \in 1..MaxSegments : path_arg \in {Join(segments) : segments \in [1..n -> Segments]}
    /\ ipts_dir = <<>>
    /\ tif_file = [kind |-> "tiff", tags |-> <<>>]
    /\ metadata = <<>>
    /\ listing = <<>>
    /\ ob_dir = <<>>
    /\ df_dir = <<>>
    /\ dirs = {}
    /\ ct_dir_files = {}
    /\ pc = [p \in Procs |-> "off"]
    /\ trigger = [p \in Procs |-> [idx |-> 0, RunNo |-> 0, GroupSize |-> 0, FrameSize |-> 0]]
    /\ frame = [p \in Procs |-> NoFrame]
    /\ earliest_ct_mtime = [p \in Procs |-> 0]
    /\ angle_file_list = [p \in Procs |-> <<>>]
    /\ ct_out = [p \in Procs |-> NoOut]
    /\ cal_out = [p \in Procs |-> [ob |-> <<>>, df |-> <<>>]]
    /\ warnings = [p \in Procs |-> <<>>]
    /\ error = [p \in Procs |-> ""]
    /\ calls = [p \in Procs |-> <<>>]
    /\ listed = [p \in Procs |-> {}]
    /\ NoWizard

NextPath == call_getIPTSdir

SpecPath == InitPath /\ [][NextPath]_vars

\* ------------------------------------------------------- readTIFMetadata
\* The test with >= for ==: the first two of more tokens are taken.
TwoOrMoreTokens(tokens) == Len(tokens) >= 2

\* Line 226: the value splits into exactly two tokens.
TwoTokens(tokens) == Len(tokens) = 2

\* Line 228: metadata[name] = value, on a mapping held as a set of pairs.
Put(md, name, value) == {pair \in md : pair[1] # name} \cup {<<name, value>>}

\* Lines 222-228: the loop over the tags left, with the mapping so far.  A tag
\* value is a string (isstr) or something else, such as a number.
RECURSIVE readTIFMetadata_loop(_, _)
readTIFMetadata_loop(tags, md) ==
    IF tags = <<>> THEN md
    ELSE IF ~Head(tags).isstr THEN readTIFMetadata_loop(Tail(tags), md)
    ELSE IF ~TwoTokens(Split(Head(tags).v, ":")) THEN readTIFMetadata_loop(Tail(tags), md)
    ELSE readTIFMetadata_loop(Tail(tags), Put(md, Split(Head(tags).v, ":")[1], Split(Head(tags).v, ":")[2]))

\* Lines 218-230: readTIFMetadata(f1): tifffile.TiffFile raises ValueError for a file
\* that is not a TIFF; otherwise the mapping is returned, whatever it holds.
readTIFMetadata(f1) == IF f1.kind # "tiff" THEN [status |-> "ValueError", metadata |-> {}] ELSE [status |-> "returned", metadata |-> readTIFMetadata_loop(f1.tags, {})]

\* A call of readTIFMetadata on tif_file.
call_readTIFMetadata ==
    /\ metadata = <<>>
    /\ metadata' = <<readTIFMetadata(tif_file)>>
    /\ UNCHANGED wizvars
    /\ UNCHANGED listed
    /\ UNCHANGED <<listing, ob_dir, df_dir, dirs, ct_dir_files, pc, trigger, frame, earliest_ct_mtime, angle_file_list, ct_out, cal_out, warnings, error, calls, path_arg, ipts_dir, tif_file>>

\* The values a tag can have: the strings of at most MaxText characters over a
\* letter and the colon, and a value that is not a string.
TagValues == {[isstr |-> TRUE, v |-> v] : v \in SeqUpTo({"a", ":"}, MaxText)} \cup {[isstr |-> FALSE, v |-> <<>>]}

\* readTIFMetadata called on a file that is not a TIFF and on every TIFF file of at
\* most MaxTags tags on its first page.
InitMeta ==
    /\ tif_file \in {[kind |-> "nottiff", tags |-> <<>>]} \cup {[kind |-> "tiff", tags |-> tags] : tags \in SeqUpTo(TagValues, MaxTags)}
    /\ metadata = <<>>
    /\ path_arg = <<>>
    /\ ipts_dir = <<>>
    /\ listing = <<>>
    /\ ob_dir = <<>>
    /\ df_dir = <<>>
    /\ dirs = {}
    /\ ct_dir_files = {}
    /\ pc = [p \in Procs |-> "off"]
    /\ trigger = [p \in Procs |-> [idx |-> 0, RunNo |-> 0, GroupSize |-> 0, FrameSize |-> 0]]
    /\ frame = [p \in Procs |-> NoFrame]
    /\ earliest_ct_mtime = [p \in Procs |-> 0]
    /\ angle_file_list = [p \in Procs |-> <<>>]
    /\ ct_out = [p \in Procs |-> NoOut]
    /\ cal_out = [p \in Procs |-> [ob |-> <<>>, df |-> <<>>]]
    /\ warnings = [p \in Procs |-> <<>>]
    /\ error = [p \in Procs |-> ""]
    /\ calls = [p \in Procs |-> <<>>]
    /\ listed = [p \in Procs |-> {}]
    /\ NoWizard

NextMeta == call_readTIFMetadata

SpecMeta == InitMeta /\ [][NextMeta]_vars

\* ------------------------------------------------- what is written where
\* autoreduce on a fresh disk, and again once it has ended, for a complete group of
\* four TIFF files with angles 0 and 16 (two windows when FrameSize is 2), with
\* calibration directories of at most one entry.
InitFrame ==
    /\ listing \in {[i \in 1..4 |-> Entry(i, "tiff", TrigGroup, a[i])] : a \in [1..4 -> {0, 16}]}
    /\ ob_dir \in SeqUpTo(CalTimes, 1)
    /\ df_dir \in SeqUpTo(CalTimes, 1)
    /\ dirs = {}
    /\ pc = [p \in Procs |-> IF p = 1 THEN "start" ELSE "waiting"]
    /\ \E k \in 1..MaxFrame : trigger = [p \in Procs |-> [idx |-> 1, RunNo |-> TrigGroup + 1, GroupSize |-> 2, FrameSize |-> k]]
    /\ NothingYet

SpecFrame == InitFrame /\ [][NextRetrigger]_vars

\* ------------------------------------------------------ skip_df
\* How the CT object comes to be: through autoreduce on a fresh disk, or constructed
\* by a caller, with skip_df set or not, in a working directory that exists.
Constructions == {[pc |-> "start", skip_df |-> FALSE, dirs |-> {}], [pc |-> "ct_scan", skip_df |-> FALSE, dirs |-> {"workdir"}], [pc |-> "ct_scan", skip_df |-> TRUE, dirs |-> {"workdir"}]}

\* Either way, for the trigger file of a complete group of two TIFF files with equal
\* angles and FrameSize 2, with calibration directories of at most one entry.
InitSkipDF ==
    /\ listing = <<Entry(1, "tiff", TrigGroup, 0), Entry(2, "tiff", TrigGroup, 0)>>
    /\ ob_dir \in SeqUpTo(CalTimes, 1)
    /\ df_dir \in SeqUpTo(CalTimes, 1)
    /\ \E c \in Constructions :
          /\ dirs = c.dirs
          /\ pc = InitProc(c.pc)
          /\ frame = [p \in Procs |-> [matched |-> <<>>, ct_dir |-> "unbound", frame_size |-> 0, skip_df |-> c.skip_df]]
    /\ \E idx \in 1..2 : trigger = [p \in Procs |-> [idx |-> idx, RunNo |-> TrigGroup + 1, GroupSize |-> 2, FrameSize |-> 2]]
    /\ ct_dir_files = {}
    /\ earliest_ct_mtime = [p \in Procs |-> 0]
    /\ angle_file_list = [p \in Procs |-> <<>>]
    /\ ct_out = [p \in Procs |-> NoOut]
    /\ cal_out = [p \in Procs |-> [ob |-> <<>>, df |-> <<>>]]
    /\ warnings = [p \in Procs |-> <<>>]
    /\ error = [p \in Procs |-> ""]
    /\ calls = [p \in Procs |-> <<>>]
    /\ listed = [p \in Procs |-> {}]
    /\ NoWizard
    /\ NoPureCall

SpecSkipDF == InitSkipDF /\ [][Next]_vars

\* ---------------------------------------------- properties of the driver
TriggerIsTiff(p) == listing[trigger[p].idx].kind = "tiff"

\* GroupID + GroupSize - 1 of the trigger's metadata.
LastRunNo(p) == listing[trigger[p].idx].GroupID + trigger[p].GroupSize - 1

\* C1: an invocation whose trigger has RunNo < GroupID + GroupSize - 1 takes one
\* step, the return, and that step changes nothing: no directory, no link or
\* averaged file, no CT object, no call of preprocess or recon.
C1_IncompleteNoEffects == [][\A p \in Procs : (TriggerIsTiff(p) /\ trigger[p].RunNo < LastRunNo(p) /\ pc'[p] # pc[p]) => (pc[p] = "start" /\ pc'[p] = "returned" /\ UNCHANGED <<listing, ob_dir, df_dir, dirs, ct_dir_files, frame, earliest_ct_mtime, angle_file_list, ct_out, cal_out, warnings, error, calls>>)]_vars

\* An invocation on an incomplete group has returned.
C1_Witness == \E p \in Procs : TriggerIsTiff(p) /\ trigger[p].RunNo < LastRunNo(p) /\ pc[p] = "returned"

\* The invocation went on past the two tests of lines 36-39.
Proceeded(p) == pc[p] \notin {"start", "returned"} /\ error[p] # "RuntimeError: Corrupted file?"

\* C2: the group is taken as complete, and the invocation goes on to path
\* resolution and CT construction, exactly when RunNo >= GroupID + GroupSize - 1;
\* preprocess and recon are called after both directories exist.
C2_CompleteIffAtOrPastLast ==
    \A p \in Procs : (TriggerIsTiff(p) /\ pc[p] # "start" /\ pc[p] # "off") =>
        /\ Proceeded(p) <=> trigger[p].RunNo >= LastRunNo(p)
        /\ calls[p] # <<>> => {"autoreduce_dir", "workdir"} \subseteq dirs

\* An invocation with RunNo past GroupID + GroupSize - 1 ran to the end.
C2_Witness == \E p \in Procs : TriggerIsTiff(p) /\ trigger[p].RunNo > LastRunNo(p) /\ pc[p] = "done" /\ calls[p] = <<"preprocess", "recon">>

\* The exceptions of the assembly: metadata read, empty group, unbound ct_dir, angle
\* divergence, directory creation, no calibration files, corrupted file.
AssemblyErrors == {"ValueError", "UnboundLocalError", "AssertionError", "OSError", "RuntimeError: no Open Beam", "RuntimeError: no Dark field", "RuntimeError: Corrupted file?"}

\* C3: preprocess and then recon are called only once _getCTfiles has returned the
\* CT sequence and both lookups have returned their sets; an invocation that an
\* assembly step ended has called neither.
C3_ReconAfterAssembly ==
    \A p \in Procs :
        /\ calls[p] \in {<<>>, <<"preprocess">>, <<"preprocess", "recon">>}
        /\ calls[p] # <<>> =>
              /\ error[p] \notin AssemblyErrors
              /\ angle_file_list[p] # <<>>
              /\ Len(ct_out[p].angles) = Len(angle_file_list[p]) \div frame[p].frame_size
              /\ cal_out[p].ob # <<>>
              /\ cal_out[p].df # <<>>
        /\ error[p] \in AssemblyErrors => calls[p] = <<>>

\* An invocation assembled everything and called preprocess and recon.
C3_Witness == \E p \in Procs : calls[p] = <<"preprocess", "recon">> /\ cal_out[p].ob # <<>> /\ cal_out[p].df # <<>>

\* ---------------------------------------------- properties of the lookup
\* The places of the entries whose mtime is at or after earliest - 86400.
AtOrAfter(entries, earliest) == {i \in DOMAIN entries : entries[i] >= earliest - 86400}

\* The places of the entries whose mtime is after earliest - 86400.
After(entries, earliest) == {i \in DOMAIN entries : entries[i] > earliest - 86400}

\* C5: a set the lookup returns holds exactly the entries whose mtime is at or
\* after earliest_ct_mtime - 86400.
C5_KeptAtOrAfter ==
    \A p \in Procs :
        /\ cal_out[p].ob # <<>> => Range(cal_out[p].ob) = AtOrAfter(ob_dir, earliest_ct_mtime[p])
        /\ cal_out[p].df # <<>> => Range(cal_out[p].df) = AtOrAfter(df_dir, earliest_ct_mtime[p])

\* C5 as amended: a set the lookup returns holds exactly the entries whose mtime is
\* after earliest_ct_mtime - 86400; an entry at earliest_ct_mtime - 86400 is left out.
C5_KeptAfter ==
    \A p \in Procs :
        /\ cal_out[p].ob # <<>> => Range(cal_out[p].ob) = After(ob_dir, earliest_ct_mtime[p])
        /\ cal_out[p].df # <<>> => Range(cal_out[p].df) = After(df_dir, earliest_ct_mtime[p])

\* A set was returned from a directory with an entry at earliest_ct_mtime - 86400.
C5_Witness == \E p \in Procs : cal_out[p].ob # <<>> /\ \E i \in DOMAIN ob_dir : ob_dir[i] = earliest_ct_mtime[p] - 86400

\* The lookup of each kind has ended, by a return or by its exception.
ObDone(p) == pc[p] \in {"sniff_df", "preprocess", "recon", "done"} \/ error[p] \in {"RuntimeError: no Open Beam", "RuntimeError: no Dark field"}
DfDone(p) == (pc[p] \in {"preprocess", "recon", "done"} /\ ~frame[p].skip_df) \/ error[p] = "RuntimeError: no Dark field"

\* What C6 says of one lookup, of n entries in the window: none, an error and no
\* set; 1 to 4, a warning and the set; 5 or more, the set and no warning.
LookupOutcome(p, type, n, out, err) ==
    /\ n = 0 => (pc[p] = "raised" /\ error[p] = err /\ out = <<>>)
    /\ n \in 1..4 => (error[p] # err /\ Len(out) = n /\ \E i \in DOMAIN warnings[p] : warnings[p][i] = type)
    /\ n >= 5 => (error[p] # err /\ Len(out) = n /\ \A i \in DOMAIN warnings[p] : warnings[p][i] # type)

\* C6: the outcome of the open-beam and of the dark-field lookup by the number of
\* entries in the time window.
C6_OutcomeByCount ==
    \A p \in Procs :
        /\ ObDone(p) => LookupOutcome(p, "Open Beam", Cardinality(After(ob_dir, earliest_ct_mtime[p])), cal_out[p].ob, "RuntimeError: no Open Beam")
        /\ DfDone(p) => LookupOutcome(p, "Dark field", Cardinality(After(df_dir, earliest_ct_mtime[p])), cal_out[p].df, "RuntimeError: no Dark field")

\* Five open-beam files returned without a warning, one dark-field file with one.
C6_Witness == \E p \in Procs : pc[p] = "preprocess" /\ Len(cal_out[p].ob) = 5 /\ Len(cal_out[p].df) = 1 /\ warnings[p] = <<"Dark field">>

\* ------------------------------------------------ properties of assembly
\* The entries of the listing that belong to group g.
GroupEntries(l, g) == {l[i] : i \in {j \in DOMAIN l : l[j].kind = "tiff" /\ l[j].GroupID = g}}

TriggerGroup(p) == listing[trigger[p].idx].GroupID

\* _getCTfiles has run its loop (to the return or to an exception).
LoopDone(p) == angle_file_list[p] # <<>> /\ pc[p] \in {"sniff_ob", "raised"}

Returned(p) == angle_file_list[p] # <<>> /\ pc[p] = "sniff_ob"

\* C4: once _getCTfiles has set earliest_ct_mtime, it is the least modification
\* time over the files of the trigger's group.
C4_EarliestIsGroupMinimum == \A p \in Procs : frame[p].matched # <<>> => \A e \in GroupEntries(listing, TriggerGroup(p)) : earliest_ct_mtime[p] <= e.mtime

\* The bag of angles of a sequence of (angle, path) pairs, as a count per angle.
AngleCount(s, a) == Cardinality({i \in DOMAIN s : s[i][1] = a})

\* C7: with FrameSize 1 and n files in the group, _getCTfiles returns n entries
\* whose angles are the files' RotationActual values, each a link to its file.
C7_FrameSizeOneRoundTrip ==
    \A p \in Procs : (LoopDone(p) /\ frame[p].frame_size = 1) =>
        /\ pc[p] = "sniff_ob"
        /\ Len(ct_out[p].angles) = Len(frame[p].matched)
        /\ \A a \in Angles : Cardinality({i \in DOMAIN ct_out[p].angles : ct_out[p].angles[i] = a * FrameLCM}) = AngleCount(frame[p].matched, a)
        /\ \A i \in DOMAIN ct_out[p].files : \E f \in ct_dir_files : f.name = ct_out[p].files[i] /\ f.content.link

Ascending(s) == \A i, j \in DOMAIN s : i < j => s[i] <= s[j]

\* Every window of frame_size entries of the sorted list agrees within tolerance.
WindowsAgree(l, frame_size) == \A w \in 1..(Len(l) \div frame_size) : AllClose(SubSeq(l, (w - 1) * frame_size + 1, w * frame_size), SumAngles(SubSeq(l, (w - 1) * frame_size + 1, w * frame_size)), frame_size)

\* C8: for every listing order and every FrameSize, _getCTfiles on a group whose
\* windows agree returns a sequence, and its angles are in ascending order.
C8_ReturnsAscending ==
    \A p \in Procs : (LoopDone(p) /\ WindowsAgree(angle_file_list[p], frame[p].frame_size)) =>
        /\ pc[p] = "sniff_ob"
        /\ Ascending(ct_out[p].angles)

\* The part of C8 the code keeps: a sequence that is returned is ascending.
C8_ReturnedIsAscending == \A p \in Procs : Returned(p) => Ascending(ct_out[p].angles)

\* The place of the pair x in the sequence s (the pairs are distinct).
IndexOf(s, x) == CHOOSE i \in DOMAIN s : s[i] = x

\* C9: two files of the group with equal angles keep their listing order in the
\* sorted list.
C9_TiesKeepListingOrder ==
    \A p \in Procs : LoopDone(p) =>
        \A i, j \in DOMAIN frame[p].matched :
            (i < j /\ frame[p].matched[i][1] = frame[p].matched[j][1]) =>
                IndexOf(angle_file_list[p], frame[p].matched[i]) < IndexOf(angle_file_list[p], frame[p].matched[j])

\* C9 as amended: the sorted list holds the files of the group, each once, in
\* ascending order of angle, and files with equal angles in ascending order of path.
C9_TiesOrderedByPath ==
    \A p \in Procs : LoopDone(p) =>
        /\ Range(angle_file_list[p]) = Range(frame[p].matched)
        /\ Len(angle_file_list[p]) = Len(frame[p].matched)
        /\ \A i, j \in DOMAIN angle_file_list[p] : i < j =>
              \/ angle_file_list[p][i][1] < angle_file_list[p][j][1]
              \/ (angle_file_list[p][i][1] = angle_file_list[p][j][1] /\ angle_file_list[p][i][2] < angle_file_list[p][j][2])

\* Two files with equal angles, listed against the order of their paths, sorted.
C9_Witness == \E p \in Procs : Returned(p) /\ \E i, j \in DOMAIN frame[p].matched : i < j /\ frame[p].matched[i][1] = frame[p].matched[j][1] /\ frame[p].matched[i][2] > frame[p].matched[j][2]

\* The mean of window w (counted from 1) of the sorted list, scaled by FrameLCM.
WindowMean(l, w, frame_size) == SumAngles(SubSeq(l, (w - 1) * frame_size + 1, w * frame_size)) * (FrameLCM \div frame_size)

\* C10: with FrameSize k > 1 and n files in the group, the loop takes the sorted
\* list in consecutive windows of k entries; when every full window agrees it
\* returns floor(n / k) entries, entry w the mean of window w, and the n mod k
\* entries after the last full window raise nothing; it raises (AssertionError)
\* only when a full window disagrees.
C10_WindowsOfK ==
    \A p \in Procs : (LoopDone(p) /\ frame[p].frame_size > 1) =>
        LET k == frame[p].frame_size
            l == angle_file_list[p]
        IN  IF WindowsAgree(l, k)
            THEN /\ pc[p] = "sniff_ob"
                 /\ Len(ct_out[p].angles) = Len(l) \div k
                 /\ Len(ct_out[p].files) = Len(l) \div k
                 /\ \A w \in 1..(Len(l) \div k) : ct_out[p].angles[w] = WindowMean(l, w, k)
            ELSE pc[p] = "raised" /\ error[p] = "AssertionError"

\* A group of n files with n mod k > 0 and at least one full window, returned.
C10_Witness == \E p \in Procs : Returned(p) /\ frame[p].frame_size > 1 /\ Len(angle_file_list[p]) % frame[p].frame_size # 0 /\ Len(ct_out[p].angles) >= 1

\* --------------------------------------------- properties of the tolerance
\* The places of window w (counted from 1) of a list taken in windows of k.
WindowPlaces(w, k) == ((w - 1) * k + 1)..(w * k)

\* Two angles of a full window of the list differ by more than d units of 1e-4 degree.
SpreadOver(l, k, d) == \E w \in 1..(Len(l) \div k) : \E i, j \in WindowPlaces(w, k) : l[i][1] - l[j][1] > d

\* C11: with FrameSize > 1 the assembly fails with the angle-divergence error
\* whenever the angles of a window differ by more than 1e-3 degree, whatever their
\* magnitude, and does not fail when the angles of every window differ by less.
C11_FailsIffSpreadOverTol ==
    \A p \in Procs : (LoopDone(p) /\ frame[p].frame_size > 1) =>
        /\ SpreadOver(angle_file_list[p], frame[p].frame_size, 10) => (pc[p] = "raised" /\ error[p] = "AssertionError")
        /\ ~SpreadOver(angle_file_list[p], frame[p].frame_size, 9) => pc[p] = "sniff_ob"

\* An angle of a full window is further from the window's mean than
\* 1e-3 + 1e-5 * |mean| degree (all terms times k, in units of 1e-4 degree).
FarFromMean(l, k) == \E w \in 1..(Len(l) \div k) : \E i \in WindowPlaces(w, k) : Abs(k * l[i][1] - SumAngles(SubSeq(l, (w - 1) * k + 1, w * k))) > k * 10 + Abs(SumAngles(SubSeq(l, (w - 1) * k + 1, w * k))) \div 100000

\* C11 as amended: with FrameSize > 1 the assembly fails with the angle-divergence
\* error exactly when an angle of a full window is further from the mean of its
\* window than 1e-3 + 1e-5 * |mean| degree; the tolerance grows with the magnitude
\* of the angles, and angles of one window may differ by more than 1e-3 degree.
C11_FailsIffFarFromMean ==
    \A p \in Procs : (LoopDone(p) /\ frame[p].frame_size > 1) =>
        IF FarFromMean(angle_file_list[p], frame[p].frame_size)
        THEN pc[p] = "raised" /\ error[p] = "AssertionError"
        ELSE pc[p] = "sniff_ob"

\* A window near 300 degrees whose angles differ by 2.4e-3 degree was averaged.
C11_Witness == \E p \in Procs : Returned(p) /\ frame[p].frame_size = 2 /\ Len(ct_out[p].angles) >= 1 /\ angle_file_list[p][1][1] = 3000000 /\ angle_file_list[p][2][1] = 3000024

\* ------------------------------------------ properties of the re-trigger
\* The names of the files of ct_dir.
Names(fs) == {f.name : f \in fs}

\* The invocation's _getCTfiles has returned, now or earlier.
Assembled(p) == angle_file_list[p] # <<>> /\ error[p] \notin {"UnboundLocalError", "AssertionError", "OSError"}

\* The second invocation's _getCTfiles returned what the first one's returned, and
\* ct_dir holds the files it returned and no other.
SameAsFirst == Assembled(2) /\ Assembled(1) /\ ct_out[2] = ct_out[1] /\ Names(ct_dir_files) = Range(ct_out[2].files)

\* C12: an invocation of autoreduce on the same complete group after an earlier
\* one, on the disk the earlier one left, gets through the assembly and leaves the
\* same files as the first, with FrameSize 1 and with FrameSize > 1 (for a group
\* whose windows agree).
C12_RetriggerTolerated == (angle_file_list[2] # <<>> /\ WindowsAgree(angle_file_list[2], frame[2].frame_size)) => SameAsFirst

\* The part of C12 the code keeps: with FrameSize > 1 the second invocation
\* overwrites the averaged files and returns what the first returned.
C12_AveragedRetriggerTolerated == (angle_file_list[2] # <<>> /\ frame[2].frame_size > 1 /\ WindowsAgree(angle_file_list[2], frame[2].frame_size)) => SameAsFirst

\* A second invocation with FrameSize > 1 averaged a window over the first one's file.
C12_Witness == Returned(2) /\ frame[2].frame_size > 1 /\ Len(ct_out[2].files) >= 1

\* ------------------------------------- properties of concurrent invocations
\* The invocation was ended, before its loop, by os.makedirs finding the directory
\* present.
MakedirsFailed(p) == pc[p] = "raised" /\ error[p] = "OSError" /\ angle_file_list[p] = <<>>

\* C13: of two invocations of autoreduce running at once for the same group, in
\* every interleaving, none is ended by the creation of the autoreduce directory,
\* of the working directory or of the CT_frame_averaged directory finding the
\* directory already created by the other.
C13_MakedirsIdempotent == \A p \in Procs : ~MakedirsFailed(p)

\* ---------------------------------------------- properties of getIPTSdir
\* A segment of the path begins at place i: at the start or right after a '/'.
SegmentAt(path, i) == i = 1 \/ path[i - 1] = "/"

\* The segment that begins at place i begins with IPTS.
RootAt(path, i) == SegmentAt(path, i) /\ i + 3 <= Len(path) /\ path[i] = "I" /\ path[i + 1] = "P" /\ path[i + 2] = "T" /\ path[i + 3] = "S"

HasRoot(path) == \E i \in DOMAIN path : RootAt(path, i)

\* The place of the last character of the first segment that begins with IPTS.
FirstRootEnd(path) ==
    LET i == CHOOSE j \in DOMAIN path : RootAt(path, j) /\ \A h \in 1..(j - 1) : ~RootAt(path, h)
    IN  CHOOSE e \in i..Len(path) : (e = Len(path) \/ path[e + 1] = "/") /\ \A h \in i..e : path[h] # "/"

\* C15: for every path with no segment that begins with IPTS, getIPTSdir fails with
\* an error and returns no path.
C15_NoRootRaises == (ipts_dir # <<>> /\ ~HasRoot(path_arg)) => ipts_dir[1].status = "raised"

\* C16: for every path with a segment that begins with IPTS, getIPTSdir returns the
\* path up to and including the first such segment, followed by '/'; segments after
\* it, with or without the prefix, are not part of the result.
C16_PrefixToFirstRoot == (ipts_dir # <<>> /\ HasRoot(path_arg)) => (ipts_dir[1].status = "returned" /\ ipts_dir[1].p = SubSeq(path_arg, 1, FirstRootEnd(path_arg)) \o <<"/">>)

\* getIPTSdir returned for a path with two segments that begin with IPTS, after a
\* segment that holds IPTS further in.
C16_Witness == ipts_dir # <<>> /\ path_arg = <<"x">> \o IPTS \o <<"/">> \o IPTS \o <<"-", "1", "/">> \o IPTS /\ ipts_dir[1].p = <<"x">> \o IPTS \o <<"/">> \o IPTS \o <<"-", "1", "/">>

\* ------------------------------------------------ properties of the scan
\* The scan of the directory has ended, by going on or by an exception.
ScanDone(p) == pc[p] \notin {"off", "ct_scan"}

\* The places of the entries whose metadata cannot be read and that are not skipped.
Unreadable(l) == {i \in DOMAIN l : l[i].kind \in {"badtiff", "unreadable"}}

\* C17: with the trigger in the listing, entries that are not TIFF files and
\* subdirectories do not count: the scan takes exactly the TIFF files of the
\* trigger's group, as for the directory without the other entries, and they end
\* the assembly only when there is no such file at all; an entry whose metadata
\* cannot be read for another reason ends the assembly with its error, before any
\* file is written.
C17_SkipOrPropagate ==
    \A p \in Procs : (ScanDone(p) /\ trigger[p].idx \in DOMAIN listing) =>
        IF Unreadable(listing) # {}
        THEN /\ pc[p] = "raised"
             /\ \E i \in Unreadable(listing) : (\A h \in Unreadable(listing) : i <= h) /\ error[p] = (IF listing[i].kind = "badtiff" THEN "ValueError: other" ELSE "IOError")
             /\ ct_out[p] = NoOut
             /\ ct_dir_files = {}
        ELSE /\ error[p] \notin {"ValueError", "ValueError: other", "IOError", "OSError"}
             /\ Range(frame[p].matched) = {<<e.RotationActual, e.path>> : e \in GroupEntries(listing, TrigGroup)}
             /\ Len(frame[p].matched) = Cardinality(GroupEntries(listing, TrigGroup))

\* A sequence was returned from a directory with a subdirectory and a file that is
\* not a TIFF around the files of the group.
C17_Witness == \E p \in Procs : Returned(p) /\ ct_out[p].angles # <<>> /\ (\E i \in DOMAIN listing : listing[i].kind = "dir") /\ (\E i \in DOMAIN listing : listing[i].kind = "nottiff")

\* No TIFF file of the trigger's group is in the listing, and every entry is read
\* or skipped.
NoMatch(p) == GroupEntries(listing, TrigGroup) = {} /\ Unreadable(listing) = {}

\* C18: when no entry of the directory matches the trigger's GroupID the assembly
\* ends with an error and returns nothing; an empty sequence is never returned.
C18_NeverEmpty ==
    \A p \in Procs :
        /\ (ScanDone(p) /\ NoMatch(p)) => (pc[p] = "raised" /\ ct_out[p] = NoOut)
        /\ Returned(p) => ct_out[p].angles # <<>>

\* C18 as amended: when no entry of the directory matches the trigger's GroupID
\* the assembly ends with ValueError and returns nothing; a sequence that is
\* returned is empty exactly when the matching entries are fewer than FrameSize.
C18_EmptyOnlyBelowFrameSize ==
    \A p \in Procs :
        /\ (ScanDone(p) /\ NoMatch(p)) => (pc[p] = "raised" /\ error[p] = "ValueError" /\ ct_out[p] = NoOut /\ ct_dir_files = {})
        /\ Returned(p) => (ct_out[p].angles = <<>> <=> Len(frame[p].matched) < frame[p].frame_size)
        /\ Returned(p) => Len(frame[p].matched) >= 1

\* The scan of a directory without a file of the trigger's group ended in ValueError.
C18_Witness == \E p \in Procs : NoMatch(p) /\ pc[p] = "raised" /\ error[p] = "ValueError" /\ \E i \in DOMAIN listing : listing[i].kind = "tiff"

\* ------------------------------------------ properties of readTIFMetadata
\* The places of the colons of a string.
Colons(v) == {i \in DOMAIN v : v[i] = ":"}

\* The places of the tags that are strings with exactly one colon.
Pairs(tags) == {i \in DOMAIN tags : tags[i].isstr /\ Cardinality(Colons(tags[i].v)) = 1}

\* The name before and the value after the colon of such a tag.
NameOf(v) == SubSeq(v, 1, (CHOOSE i \in Colons(v) : TRUE) - 1)
ValueOf(v) == SubSeq(v, (CHOOSE i \in Colons(v) : TRUE) + 1, Len(v))

\* C19: the mapping readTIFMetadata returns holds the name and value of exactly
\* the string tags with one colon; and the call fails with an error, instead of
\* returning an empty mapping, exactly when the file is a TIFF with no such tag.
C19_FailsWhenNoPairs ==
    (metadata # <<>> /\ tif_file.kind = "tiff") =>
        IF Pairs(tif_file.tags) = {}
        THEN metadata[1].status \notin {"returned", "ValueError"}
        ELSE metadata[1].status = "returned" /\ {pair[1] : pair \in metadata[1].metadata} = {NameOf(tif_file.tags[i].v) : i \in Pairs(tif_file.tags)}

\* C19 as amended: for a TIFF file readTIFMetadata always returns; the mapping
\* holds, for each name of a string tag with exactly one colon, the value of the
\* last such tag with that name, and nothing else: it is empty when the file has no
\* such tag.  For a file that is not a TIFF the call raises ValueError.
C19_PairsOfTwoTokenTags ==
    metadata # <<>> =>
        IF tif_file.kind = "tiff"
        THEN /\ metadata[1].status = "returned"
             /\ metadata[1].metadata = {<<NameOf(tif_file.tags[i].v), ValueOf(tif_file.tags[i].v)>> : i \in {j \in Pairs(tif_file.tags) : \A h \in Pairs(tif_file.tags) : (h > j) => NameOf(tif_file.tags[h].v) # NameOf(tif_file.tags[j].v)}}
        ELSE metadata[1].status = "ValueError"

\* An empty mapping was returned for a TIFF file whose tags are a number and a
\* string with two colons.
C19_Witness == metadata # <<>> /\ tif_file.kind = "tiff" /\ Len(tif_file.tags) = 2 /\ ~tif_file.tags[1].isstr /\ tif_file.tags[2].isstr /\ Cardinality(Colons(tif_file.tags[2].v)) = 2 /\ metadata[1] = [status |-> "returned", metadata |-> {}]

\* ------------------------------------------- properties of what is written
\* The paths of the source CT files.
SourcePaths == {listing[i].path : i \in DOMAIN listing}

Sniffed(p) == pc[p] \in {"preprocess", "recon", "done"} \/ calls[p] # <<>>

\* sniff has got past the open-beam lookup, or was ended by it.
PastOB(p) == pc[p] = "sniff_df" \/ Sniffed(p) \/ error[p] \in {"RuntimeError: no Open Beam", "RuntimeError: no Dark field"}

\* The CT object was constructed by autoreduce.
ThroughAutoreduce(p) == "autoreduce_dir" \in dirs

\* C21: with skip_df set no dark-field directory is listed, the dark-field set
\* handed on is None, and no lack of dark-field files ends the assembly; the
\* open-beam directory is listed always, and an open-beam directory with no file in
\* the time window always ends the assembly; autoreduce constructs CT with skip_df
\* False, and an invocation through it that reaches the lookups with no dark-field
\* file in the time window ends in the error, with nothing handed on.
C21_SkipDFOnlyWhenAsked ==
    \A p \in Procs :
        /\ frame[p].skip_df => ("df" \notin listed[p] /\ error[p] # "RuntimeError: no Dark field")
        /\ (frame[p].skip_df /\ Sniffed(p)) => cal_out[p].df = <<0>>
        /\ (~frame[p].skip_df /\ Sniffed(p)) => ("df" \in listed[p] /\ cal_out[p].df # <<0>> /\ cal_out[p].df # <<>>)
        /\ PastOB(p) => "ob" \in listed[p]
        /\ (PastOB(p) /\ After(ob_dir, earliest_ct_mtime[p]) = {}) => (pc[p] = "raised" /\ error[p] = "RuntimeError: no Open Beam" /\ calls[p] = <<>>)
        /\ (ThroughAutoreduce(p) /\ pc[p] # "off") => ~frame[p].skip_df
        /\ (ThroughAutoreduce(p) /\ After(df_dir, earliest_ct_mtime[p]) = {}) => ~Sniffed(p)
        /\ (~frame[p].skip_df /\ PastOB(p) /\ pc[p] # "sniff_df" /\ After(ob_dir, earliest_ct_mtime[p]) # {} /\ After(df_dir, earliest_ct_mtime[p]) = {}) => (pc[p] = "raised" /\ error[p] = "RuntimeError: no Dark field")

\* A CT object constructed with skip_df set, with no dark-field file at all, went
\* on to reconstruction with None for the dark-field set.
C21_Witness == \E p \in Procs : frame[p].skip_df /\ df_dir = <<>> /\ pc[p] = "done" /\ cal_out[p].df = <<0>> /\ cal_out[p].ob # <<>>

\* ------------------------------------------- properties of the averaged files
\* The source paths of window w (counted from 1) of the sorted list.
WindowSources(l, w, k) == {l[i][2] : i \in WindowPlaces(w, k)}

\* C22: with FrameSize > 1, entry w of the returned sequence names a file that holds
\* the average of window w, and the names of distinct windows differ, also when
\* two windows have the same mean angle.
C22_WindowFilesDistinct ==
    \A p \in Procs : (Returned(p) /\ frame[p].frame_size > 1) =>
        /\ \A w \in DOMAIN ct_out[p].files : \E f \in ct_dir_files : f.name = ct_out[p].files[w] /\ ~f.content.link /\ f.content.src = WindowSources(angle_file_list[p], w, frame[p].frame_size)
        /\ \A v, w \in DOMAIN ct_out[p].files : v # w => ct_out[p].files[v] # ct_out[p].files[w]

\* The part of C22 the code keeps: entry w names a file that holds the average of
\* the last window whose mean angle is that of window w.
C22_LastWindowOfEachMean ==
    \A p \in Procs : (Returned(p) /\ frame[p].frame_size > 1) =>
        \A w \in DOMAIN ct_out[p].files : \E f \in ct_dir_files :
            /\ f.name = ct_out[p].files[w]
            /\ \E v \in DOMAIN ct_out[p].files : v >= w /\ ct_out[p].angles[v] = ct_out[p].angles[w] /\ f.content.src = WindowSources(angle_file_list[p], v, frame[p].frame_size) /\ \A u \in DOMAIN ct_out[p].files : (u > v) => ct_out[p].angles[u] # ct_out[p].angles[w]

\* ------------------------------------------------ properties of the windows
\* The sorted list holds the TIFF files of the trigger's group, each once, and entry
\* w of what is returned is the mean of the k files at the places of window w: the
\* windows are disjoint and cover the first k * floor(n / k) places.
WindowsPartitionPrefix(p) ==
    LET k == frame[p].frame_size
        l == angle_file_list[p]
    IN  /\ Range(l) = {<<e.RotationActual, e.path>> : e \in GroupEntries(listing, TriggerGroup(p))}
        /\ Len(l) = Cardinality(GroupEntries(listing, TriggerGroup(p)))
        /\ Len(ct_out[p].angles) = Len(l) \div k
        /\ \A w \in DOMAIN ct_out[p].angles : Cardinality(WindowPlaces(w, k)) = k /\ WindowPlaces(w, k) \subseteq DOMAIN l /\ ct_out[p].angles[w] = WindowMean(l, w, k)
        /\ \A v, w \in DOMAIN ct_out[p].angles : v # w => WindowPlaces(v, k) \cap WindowPlaces(w, k) = {}

\* C23: with FrameSize k > 1 every returned entry is the mean of exactly k files of
\* the trigger's group and every file is in at most one of them; and when a full
\* window spans angles further apart than the tolerance of 1e-3 degree the assembly
\* fails instead of returning an average over them.
C23_PartitionAndNoMixing ==
    \A p \in Procs : (LoopDone(p) /\ frame[p].frame_size > 1) =>
        /\ Returned(p) => WindowsPartitionPrefix(p)
        /\ SpreadOver(angle_file_list[p], frame[p].frame_size, 10) => (pc[p] = "raised" /\ error[p] = "AssertionError" /\ ct_out[p] = NoOut)

\* The part of C23 the code keeps: the windows partition a prefix of the sorted
\* group.
C23_PartitionOnly == \A p \in Procs : (Returned(p) /\ frame[p].frame_size > 1) => WindowsPartitionPrefix(p)

\* ------------------------------------- properties of the second test
\* C24: no step of an invocation raises 'Corrupted file?', and the step that takes
\* an invocation with RunNo >= GroupID + GroupSize - 1 past the first test takes it
\* to path resolution, with no error.
C24_CorruptedUnreachable ==
    [][\A p \in Procs :
          /\ error'[p] # "RuntimeError: Corrupted file?"
          /\ (pc[p] = "start" /\ pc'[p] # "start" /\ TriggerIsTiff(p) /\ trigger[p].RunNo >= LastRunNo(p)) => (pc'[p] = "autoreduce_dir" /\ error'[p] = "")]_vars

\* Invocations with RunNo at and past GroupID + GroupSize - 1 are at path resolution.
C24_Witness == \E p \in Procs : pc[p] = "autoreduce_dir" /\ trigger[p].RunNo >= LastRunNo(p) /\ error[p] = "" /\ dirs = {}


\* ---------------------------------------------------------------------------
\* The reconstruction wizard (jnbui/tomoreconui.py): InstrumentPanel,
\* IPTSpanel and ScanNamePanel.  Each panel has one text box and a callback
\* that validates its value.  The text is a sequence of characters; the
\* value of the text box is unicode and the callbacks encode it to ASCII.

\* The longest text typed into a text box.
MaxName == 2

\* The most alerts and exceptions recorded.
MaxEvents == 2

Chars == {"a", "A", "b", "\\xe9"}

ASCII == {"a", "A", "b"}

Texts == UNION {[1..n -> Chars] : n \in 0..MaxName}

\* self.instruments of the base panel: lower-case instrument |-> facility.
instruments == [k \in {<<"a">>} |-> <<"b">>]

\* str.lower and str.upper, character by character.
lower(s) == [i \in 1..Len(s) |-> IF s[i] = "A" THEN "a" ELSE s[i]]

upper(s) == [i \in 1..Len(s) |-> IF s[i] = "a" THEN "A" ELSE IF s[i] = "b" THEN "B" ELSE s[i]]

\* unicode.encode() with the default codec encodes ASCII text to itself
\* and raises UnicodeEncodeError on any other character.
CanEncode(v) == \A i \in 1..Len(v) : v[i] \in ASCII

\* config.<field> = value
SetField(c, field, value) == {e \in c : e[1] # field} \cup {<<field, value>>}

IsSet(c, field) == \E e \in c : e[1] = field

\* '/{0}/{1}/IPTS-{2}'.format(facility, instrument, ipts1)
IPTSpath(facility, instrument, ipts1) == <<"/">> \o facility \o <<"/">> \o instrument \o <<"/", "IPTS-">> \o ipts1

Field(c, field) == (CHOOSE e \in c : e[1] = field)[2]

\* instrument.lower() in self.instruments.keys()
Supported(instrument) == lower(instrument) \in DOMAIN instruments

\* A callback's exception is recorded; the wizard is left as it was when raised.
CallbackRaises(name) == events' = Append(events, name)

js_alert(s) == events' = Append(events, s)

\* InstrumentPanel.validate, called with the text v in the text box.
InstrumentPanel_validate ==
    /\ shown = "InstrumentPanel"
    /\ Len(events) < MaxEvents
    /\ \E v \in Texts :
        /\ text' = v
        /\ IF ~CanEncode(v)
           THEN /\ CallbackRaises("UnicodeEncodeError")
                /\ UNCHANGED <<config, panels, shown>>
           ELSE IF ~Supported(v)
           THEN /\ js_alert("instrument not supported!")
                /\ UNCHANGED <<config, panels, shown>>
           ELSE /\ config' = SetField(SetField(config, "instrument", upper(v)), "facility", upper(instruments[lower(v)]))
                /\ panels' = panels \cup {"IPTSpanel"}
                /\ shown' = "IPTSpanel"
                /\ UNCHANGED events
    /\ UNCHANGED wiz_disk
    /\ UNCHANGED <<listing, ob_dir, df_dir, dirs, ct_dir_files, pc, trigger, frame, earliest_ct_mtime, angle_file_list, ct_out, cal_out, warnings, error, calls, listed>>
    /\ UNCHANGED purevars

\* IPTSpanel.validate_IPTS, called with the text v in the text box.
IPTSpanel_validate_IPTS ==
    /\ shown = "IPTSpanel"
    /\ Len(events) < MaxEvents
    /\ \E v \in Texts :
        /\ text' = v
        /\ IF ~CanEncode(v)
           THEN /\ CallbackRaises("UnicodeEncodeError")
                /\ UNCHANGED <<config, panels, shown>>
           ELSE LET path == IPTSpath(Field(config, "facility"), Field(config, "instrument"), v)
                    set  == SetField(SetField(SetField(SetField(config, "ipts", v), "iptsdir", path), "datadir", path \o <<"/", "raw/">>), "ct_scan_root", path \o <<"/", "raw/", "ct_scans">>)
                IN IF path \notin wiz_disk.ipts
                   THEN /\ js_alert("Cannot open directory! Please check IPTS number")
                        /\ UNCHANGED <<config, panels, shown>>
                   ELSE IF ~wiz_disk.ct_scans
                   THEN /\ config' = set
                        /\ shown' = "none"
                        /\ CallbackRaises("OSError")
                        /\ UNCHANGED panels
                   ELSE /\ config' = SetField(set, "ct_scan_subdirs", <<>>)
                        /\ panels' = panels \cup {"ScanNamePanel"}
                        /\ shown' = "ScanNamePanel"
                        /\ UNCHANGED events
    /\ UNCHANGED wiz_disk
    /\ UNCHANGED <<listing, ob_dir, df_dir, dirs, ct_dir_files, pc, trigger, frame, earliest_ct_mtime, angle_file_list, ct_out, cal_out, warnings, error, calls, listed>>
    /\ UNCHANGED purevars

\* ScanNamePanel.validate, called with the text v in the text box.
ScanNamePanel_validate ==
    /\ shown = "ScanNamePanel"
    /\ Len(events) < MaxEvents
    /\ \E v \in Texts :
        /\ text' = v
        /\ IF v = <<>>
           THEN /\ js_alert("Please specify a name for your tomography scan")
                /\ UNCHANGED <<config, panels, shown>>
           ELSE IF ~CanEncode(v)
           THEN /\ CallbackRaises("UnicodeEncodeError")
                /\ UNCHANGED <<config, panels, shown>>
           ELSE /\ config' = SetField(config, "scan", v)
                /\ panels' = panels \cup {"WorkDirPanel"}
                /\ shown' = "WorkDirPanel"
                /\ UNCHANGED events
    /\ UNCHANGED wiz_disk
    /\ UNCHANGED <<listing, ob_dir, df_dir, dirs, ct_dir_files, pc, trigger, frame, earliest_ct_mtime, angle_file_list, ct_out, cal_out, warnings, error, calls, listed>>
    /\ UNCHANGED purevars

\* The IPTS directories the disk may hold: the one of IPTS "a" of the
\* supported instrument, or none; with or without raw/ct_scans below it.
Disks == [ipts : {{}, {IPTSpath(<<"B">>, <<"A">>, <<"a">>)}}, ct_scans : BOOLEAN]

\* StartButtonPanel.nextStep has put the InstrumentPanel on display.
InitWizard ==
    /\ NoPureCall
    /\ listing = <<>>
    /\ ob_dir = <<>>
    /\ df_dir = <<>>
    /\ dirs = {}
    /\ ct_dir_files = {}
    /\ pc = [p \in Procs |-> "off"]
    /\ trigger = [p \in Procs |-> [idx |-> 0, RunNo |-> 0, GroupSize |-> 0, FrameSize |-> 0]]
    /\ frame = [p \in Procs |-> NoFrame]
    /\ earliest_ct_mtime = [p \in Procs |-> 0]
    /\ angle_file_list = [p \in Procs |-> <<>>]
    /\ ct_out = [p \in Procs |-> NoOut]
    /\ cal_out = [p \in Procs |-> [ob |-> <<>>, df |-> <<>>]]
    /\ warnings = [p \in Procs |-> <<>>]
    /\ error = [p \in Procs |-> ""]
    /\ calls = [p \in Procs |-> <<>>]
    /\ listed = [p \in Procs |-> {}]
    /\ config = {}
    /\ panels = {"InstrumentPanel"}
    /\ shown = "InstrumentPanel"
    /\ text = <<>>
    /\ events = <<>>
    /\ wiz_disk \in Disks

NextWizard == InstrumentPanel_validate \/ IPTSpanel_validate_IPTS \/ ScanNamePanel_validate

SpecWizard == InitWizard /\ [][NextWizard]_vars


Alerts == {"instrument not supported!", "Cannot open directory! Please check IPTS number", "Please specify a name for your tomography scan"}

\* The validation of the text just submitted fails: an unsupported
\* instrument, an IPTS whose directory does not exist, or an empty name.
FailedValidation ==
    \/ shown = "InstrumentPanel" /\ lower(text') \notin DOMAIN instruments
    \/ shown = "IPTSpanel" /\ IPTSpath(Field(config, "facility"), Field(config, "instrument"), text') \notin wiz_disk.ipts
    \/ shown = "ScanNamePanel" /\ text' = <<>>

\* The fields of context.config a panel's validation sets before the next panel is shown.
FieldsOf(panel) ==
    IF panel = "IPTSpanel" THEN {"instrument", "facility"}
    ELSE IF panel = "ScanNamePanel" THEN {"ipts", "iptsdir", "datadir", "ct_scan_root", "ct_scan_subdirs"}
    ELSE IF panel = "WorkDirPanel" THEN {"scan"}
    ELSE {}

\* C25: a failed validation (unsupported instrument, IPTS without a
\* directory, empty scan name) raises an alert and leaves context.config,
\* the panel on display and the panels created as they were; and a next
\* panel is shown only with its config fields set.
C25_FailedValidationAlerts ==
    [][/\ FailedValidation =>
            /\ Len(events') = Len(events) + 1
            /\ events'[Len(events')] \in Alerts
            /\ UNCHANGED <<config, panels, shown>>
       /\ (shown' \notin {shown, "none"}) => \A f \in FieldsOf(shown') : IsSet(config', f)]_vars

====
